---- MODULE Spec2Model ----
(***************************************************************************)
(* Model of worker-go/main.go: the client registry (clients, clientsMu),   *)
(* addClient, removeClient, broadcast, the report watcher (watchReport)    *)
(* and the /ws connection handler.                                          *)
(*                                                                         *)
(* Every /ws request is one handler goroutine; the connection it obtains   *)
(* from the upgrade is identified with the handler's number.  The watcher  *)
(* is one more goroutine.  The report file is the environment: it can be   *)
(* published (modification time strictly later), it can get an earlier     *)
(* modification time (clock skew), and a stat of it can fail.              *)
(***************************************************************************)
EXTENDS Integers, FiniteSets, TLC

\* ---------------------------------------------------------------- bounds
NumConns == 3
MaxTime == 2
MaxPublishes == 2

\* ------------------------------------------------------------- constants
Conns == 1..NumConns
NoOwner == 0
WatcherId == NumConns + 1
ZeroTime == 0
Times == 1..MaxTime
ReloadToken == "reload"

VARIABLES
  clients,      \* the registry: the keys of the map `clients`
  mu,           \* owner of clientsMu, NoOwner when unlocked
  closed,       \* closed[c]: number of c.Close() calls made by the server
  pc,           \* pc[h]: position of the /ws handler h
  wpc,          \* position of the watchReport goroutine
  last,         \* watchReport's local `last`
  msg,          \* broadcast's parameter msg ("" before the first call)
  cur,          \* broadcast's loop variable c (0 outside an iteration)
  visited,      \* keys the range loop of broadcast has already produced
  fileExists,   \* the report file exists
  mtime,        \* the report file's modification time
  passStart,    \* history: registry content when the pass took the lock
  attempts,     \* history: attempts[c] = WriteMessage calls on c in this pass
  delivered,    \* history: connections whose WriteMessage returned nil
  failed,       \* history: connections whose WriteMessage returned an error
  events,       \* history: number of broadcast("reload") calls of the watcher
  publishes,    \* history: number of publishes of the report file
                \* (both counters are recorded under CountSpec only)
  err,          \* watchReport's local `err`: TRUE when the last os.Stat failed
  content,      \* what the report file holds ("none" when there is no file)
  resp,         \* the last response of the /api/report handler: <<status, body>>
  rd,           \* history: parity of the messages returned by ReadMessage
                \* (recorded under MsgSpec only)
  fresh         \* history: the file's modification time was set by a publish
                \* and no stat has succeeded since (recorded under FreshSpec only)

vars == <<clients, mu, closed, pc, wpc, last, msg, cur, visited, fileExists, mtime,
          passStart, attempts, delivered, failed, events, publishes, err,
          content, resp, rd, fresh>>

regVars == <<clients, mu, closed>>
passVars == <<cur, visited, passStart, attempts, delivered, failed>>
fileVars == <<fileExists, mtime, publishes>>
watchVars == <<last, msg, events>>
apiVars == <<content, resp>>

NoAttempts == [c \in Conns |-> 0]

\* No request to /api/report has been answered yet.
NoResponse == <<0, "">>

\* A watcher whose `last` starts at the modification time of the file it
\* finds at start.
InitLastNow ==
  /\ clients = {}
  /\ mu = NoOwner
  /\ closed = [c \in Conns |-> 0]
  /\ pc = [h \in Conns |-> "start"]
  /\ wpc = "poll"
  /\ msg = ""
  /\ cur = 0
  /\ visited = {}
  /\ fileExists \in BOOLEAN
  /\ mtime = IF fileExists THEN 1 ELSE ZeroTime
  /\ last = mtime
  /\ passStart = {}
  /\ attempts = NoAttempts
  /\ delivered = {}
  /\ failed = {}
  /\ events = 0
  /\ publishes = 0
  /\ err = FALSE
  /\ content = IF fileExists THEN "report" ELSE "none"
  /\ resp = NoResponse
  /\ rd = FALSE
  /\ fresh = FALSE

\* The state after main has started the watcher and the server.
Init ==
  /\ clients = {}
  /\ mu = NoOwner
  /\ closed = [c \in Conns |-> 0]
  /\ pc = [h \in Conns |-> "start"]
  /\ wpc = "poll"
  /\ last = ZeroTime
  /\ msg = ""
  /\ cur = 0
  /\ visited = {}
  /\ fileExists \in BOOLEAN
  /\ mtime = IF fileExists THEN 1 ELSE ZeroTime
  /\ passStart = {}
  /\ attempts = NoAttempts
  /\ delivered = {}
  /\ failed = {}
  /\ events = 0
  /\ publishes = 0
  /\ err = FALSE
  /\ content = IF fileExists THEN "report" ELSE "none"
  /\ resp = NoResponse
  /\ rd = FALSE
  /\ fresh = FALSE

\* ------------------------------------------------------------ clientsMu
\* A lock that lets every caller in.
CanLockAlways(p) == TRUE

\* sync.Mutex.Lock: the caller proceeds only when the mutex is unlocked.
CanLock(p) == mu = NoOwner

\* ------------------------------------------------------------ registry
\* An assignment that replaces the map's content by the one key.
MapPutReplaces(m, c) == {c}

\* clients[c] = true
MapPut(m, c) == m \cup {c}

\* A delete that leaves the map as it is.
MapDeleteNothing(m, c) == m

\* A delete that empties the map when the key is not in it.
MapDeleteAbsentClears(m, c) == IF c \in m THEN m \ {c} ELSE {}

\* delete(clients, c)
MapDelete(m, c) == m \ {c}

\* ------------------------------------------------------- the /ws handler
\* A handler that registers the connection before it looks at the error.
UpgradeFailRegisters(h) ==
  /\ pc[h] = "start"
  /\ pc' = [pc EXCEPT ![h] = "failed"]
  /\ clients' = clients \cup {h}
  /\ UNCHANGED <<mu, closed, passVars, fileVars, watchVars, wpc, err, apiVars, rd, fresh>>

\* upgrader.Upgrade fails: the handler logs and returns.
UpgradeFail(h) ==
  /\ pc[h] = "start"
  /\ pc' = [pc EXCEPT ![h] = "failed"]
  /\ UNCHANGED <<regVars, passVars, fileVars, watchVars, wpc, err, apiVars, rd, fresh>>

\* upgrader.Upgrade succeeds: the handler goes on to addClient(conn).
UpgradeOk(h) ==
  /\ pc[h] = "start"
  /\ pc' = [pc EXCEPT ![h] = "addLock"]
  /\ UNCHANGED <<regVars, passVars, fileVars, watchVars, wpc, err, apiVars, rd, fresh>>

\* addClient entering without waiting for the mutex.
AddLockNoWait(h) ==
  /\ pc[h] = "addLock"
  /\ mu' = h
  /\ pc' = [pc EXCEPT ![h] = "addPut"]
  /\ UNCHANGED <<clients, closed, passVars, fileVars, watchVars, wpc, err, apiVars, rd, fresh>>

\* addClient: clientsMu.Lock()
AddLock(h) ==
  /\ pc[h] = "addLock"
  /\ CanLock(h)
  /\ mu' = h
  /\ pc' = [pc EXCEPT ![h] = "addPut"]
  /\ UNCHANGED <<clients, closed, passVars, fileVars, watchVars, wpc, err, apiVars, rd, fresh>>

\* addClient: clients[c] = true, the log line, the deferred Unlock.
AddPut(h) ==
  /\ pc[h] = "addPut"
  /\ clients' = MapPut(clients, h)
  /\ mu' = NoOwner
  /\ pc' = [pc EXCEPT ![h] = "read"]
  /\ UNCHANGED <<closed, passVars, fileVars, watchVars, wpc, err, apiVars, rd, fresh>>

\* A read loop that takes any message as the end of the connection.
ReadStepLeaves(h, rec) ==
  /\ pc[h] = "read"
  /\ pc' = [pc EXCEPT ![h] = "rmLock"]
  /\ rd' = IF rec THEN ~rd ELSE rd
  /\ UNCHANGED <<regVars, passVars, fileVars, watchVars, wpc, err, apiVars, fresh>>

\* conn.ReadMessage() returns a message: it is dropped, the loop goes on.
\* rec: the read is recorded in the history variable `rd`.
ReadStep(h, rec) ==
  /\ pc[h] = "read"
  /\ rd' = IF rec THEN ~rd ELSE rd
  /\ UNCHANGED <<regVars, passVars, fileVars, watchVars, pc, wpc, err, apiVars, fresh>>

ReadOk(h) == ReadStep(h, FALSE)

ReadOkRecorded(h) == ReadStep(h, TRUE)

\* conn.ReadMessage() returns an error (peer gone, or the connection was
\* closed by broadcast): the handler goes on to removeClient(conn).
ReadErr(h) ==
  /\ pc[h] = "read"
  /\ pc' = [pc EXCEPT ![h] = "rmLock"]
  /\ UNCHANGED <<regVars, passVars, fileVars, watchVars, wpc, err, apiVars, rd, fresh>>

\* removeClient: clientsMu.Lock()
RmLock(h) ==
  /\ pc[h] = "rmLock"
  /\ CanLock(h)
  /\ mu' = h
  /\ pc' = [pc EXCEPT ![h] = "rmDelete"]
  /\ UNCHANGED <<clients, closed, passVars, fileVars, watchVars, wpc, err, apiVars, rd, fresh>>

\* removeClient without the delete.
RmDeleteKeeps(h) ==
  /\ pc[h] = "rmDelete"
  /\ clients' = clients
  /\ pc' = [pc EXCEPT ![h] = "rmClose"]
  /\ UNCHANGED <<mu, closed, passVars, fileVars, watchVars, wpc, err, apiVars, rd, fresh>>

\* removeClient: delete(clients, c)
RmDelete(h) ==
  /\ pc[h] = "rmDelete"
  /\ clients' = MapDelete(clients, h)
  /\ pc' = [pc EXCEPT ![h] = "rmClose"]
  /\ UNCHANGED <<mu, closed, passVars, fileVars, watchVars, wpc, err, apiVars, rd, fresh>>

\* removeClient closing only a connection that is not closed yet.
RmCloseSkipsClosed(h) ==
  /\ pc[h] = "rmClose"
  /\ closed' = [closed EXCEPT ![h] = IF @ = 0 THEN 1 ELSE @]
  /\ mu' = NoOwner
  /\ pc' = [pc EXCEPT ![h] = "done"]
  /\ UNCHANGED <<clients, passVars, fileVars, watchVars, wpc, err, apiVars, rd, fresh>>

\* removeClient: c.Close(), the log line, the deferred Unlock; the handler
\* then leaves its loop and returns.
RmClose(h) ==
  /\ pc[h] = "rmClose"
  /\ closed' = [closed EXCEPT ![h] = @ + 1]
  /\ mu' = NoOwner
  /\ pc' = [pc EXCEPT ![h] = "done"]
  /\ UNCHANGED <<clients, passVars, fileVars, watchVars, wpc, err, apiVars, rd, fresh>>

\* ------------------------------------------------------ the report file
\* A history counter: advanced only when the step is recorded.
Count(n, rec) == IF rec THEN n + 1 ELSE n

\* What the report file can hold: a report, the JSON value null, a file cut
\* short, and JSON whose fields have the wrong types.
Contents == {"report", "null", "truncated", "badtype"}

\* A publish replaces the file; its modification time strictly advances.
\* count: the publish is recorded in the history counter `publishes`;
\* mark: it is recorded in the history variable `fresh`;
\* kinds: what the writer can leave in the file.
PublishStep(count, mark, kinds) ==
  /\ count => publishes < MaxPublishes
  /\ \E m \in Times :
       /\ m > mtime
       /\ mtime' = m
  /\ \E k \in kinds : content' = k
  /\ fileExists' = TRUE
  /\ publishes' = Count(publishes, count)
  /\ fresh' = (mark \/ fresh)
  /\ UNCHANGED <<regVars, passVars, watchVars, pc, wpc, err, resp, rd>>

Publish == PublishStep(FALSE, FALSE, {"report"})

PublishCounted == PublishStep(TRUE, FALSE, {"report"})

PublishMarked == PublishStep(FALSE, TRUE, {"report"})

\* A writer that can also leave content that is not a report.
PublishAny == PublishStep(FALSE, FALSE, Contents)

\* The file's modification time moves back (clock skew on the writer).
Regress ==
  /\ fileExists
  /\ \E m \in Times :
       /\ m < mtime
       /\ mtime' = m
  /\ fresh' = FALSE
  /\ UNCHANGED <<regVars, passVars, watchVars, pc, wpc, err, fileExists, publishes, apiVars, rd>>

\* ------------------------------------------------------------ watchReport
\* A comparison that also accepts an equal modification time.
AfterOrEqual(t, u) == t >= u

\* info.ModTime().After(last)
After(t, u) == t > u

\* An iteration that signals the event but leaves `last` as it was.
PollStepKeepsLast(statOk, rec) ==
  /\ wpc = "poll"
  /\ statOk => fileExists
  /\ IF statOk /\ mtime > last
       THEN /\ last' = last
            /\ msg' = ReloadToken
            /\ events' = Count(events, rec)
            /\ wpc' = "bcLock"
       ELSE /\ UNCHANGED <<last, msg, events>>
            /\ wpc' = "sleep"
  /\ err' = ~statOk
  /\ fresh' = (fresh /\ ~statOk)
  /\ UNCHANGED <<regVars, passVars, fileVars, pc, apiVars, rd>>

\* An iteration that takes a failed stat for a change.
PollStepSignalsOnError(statOk, rec) ==
  /\ wpc = "poll"
  /\ statOk => fileExists
  /\ IF ~statOk \/ mtime > last
       THEN /\ last' = IF statOk THEN mtime ELSE last
            /\ msg' = ReloadToken
            /\ events' = Count(events, rec)
            /\ wpc' = "bcLock"
       ELSE /\ UNCHANGED <<last, msg, events>>
            /\ wpc' = "sleep"
  /\ err' = ~statOk
  /\ fresh' = (fresh /\ ~statOk)
  /\ UNCHANGED <<regVars, passVars, fileVars, pc, apiVars, rd>>

\* An iteration that records every modification time it sees in `last`.
PollStepAlwaysRecords(statOk, rec) ==
  /\ wpc = "poll"
  /\ statOk => fileExists
  /\ IF statOk /\ mtime > last
       THEN /\ msg' = ReloadToken
            /\ events' = Count(events, rec)
            /\ wpc' = "bcLock"
       ELSE /\ UNCHANGED <<msg, events>>
            /\ wpc' = "sleep"
  /\ last' = IF statOk THEN mtime ELSE last
  /\ err' = ~statOk
  /\ fresh' = (fresh /\ ~statOk)
  /\ UNCHANGED <<regVars, passVars, fileVars, pc, apiVars, rd>>

\* One iteration of the loop up to the call of broadcast: os.Stat, the
\* test of err, the comparison with last and the assignment to last.
\* statOk = FALSE is os.Stat returning an error (always so when there is
\* no file).  rec: the call of broadcast is recorded in `events`.
PollStep(statOk, rec) ==
  /\ wpc = "poll"
  /\ statOk => fileExists
  /\ IF statOk /\ After(mtime, last)
       THEN /\ last' = mtime
            /\ msg' = ReloadToken
            /\ events' = Count(events, rec)
            /\ wpc' = "bcLock"
       ELSE /\ UNCHANGED <<last, msg, events>>
            /\ wpc' = "sleep"
  /\ err' = ~statOk
  /\ fresh' = (fresh /\ ~statOk)
  /\ UNCHANGED <<regVars, passVars, fileVars, pc, apiVars, rd>>

Poll == \E statOk \in BOOLEAN : PollStep(statOk, FALSE)

PollCounted == \E statOk \in BOOLEAN : PollStep(statOk, TRUE)

\* time.Sleep(500 * time.Millisecond)
Sleep ==
  /\ wpc = "sleep"
  /\ wpc' = "poll"
  /\ UNCHANGED <<regVars, passVars, fileVars, watchVars, pc, err, apiVars, rd, fresh>>

\* -------------------------------------------------------------- broadcast
\* broadcast: clientsMu.Lock()
BcLock ==
  /\ wpc = "bcLock"
  /\ CanLock(WatcherId)
  /\ mu' = WatcherId
  /\ wpc' = "bcRange"
  /\ visited' = {}
  /\ cur' = 0
  /\ passStart' = clients
  /\ attempts' = NoAttempts
  /\ delivered' = {}
  /\ failed' = {}
  /\ UNCHANGED <<clients, closed, fileVars, watchVars, pc, err, apiVars, rd, fresh>>

\* The keys the range loop can still produce: entries of the map that it
\* has not produced yet (an entry deleted during the loop is not produced).
Remaining == clients \ visited

\* A loop that does not remember the key it produced.
MarkVisitedForgets(v, c) == v

\* What the loop remembers after producing c.
MarkVisited(v, c) == v \cup {c}

\* for c := range clients: the next key, in any order, and the call of
\* c.WriteMessage.
BcRange ==
  /\ wpc = "bcRange"
  /\ Remaining # {}
  /\ \E c \in Remaining :
       /\ cur' = c
       /\ visited' = MarkVisited(visited, c)
       /\ attempts' = [attempts EXCEPT ![c] = @ + 1]
  /\ wpc' = "bcWrite"
  /\ UNCHANGED <<regVars, passStart, delivered, failed, fileVars, watchVars, pc, err, apiVars, rd, fresh>>

\* The range loop is exhausted.
BcRangeEnd ==
  /\ wpc = "bcRange"
  /\ Remaining = {}
  /\ wpc' = "bcUnlock"
  /\ UNCHANGED <<regVars, passVars, fileVars, watchVars, pc, err, apiVars, rd, fresh>>

\* c.WriteMessage returns nil without delay.
BcWriteOk ==
  /\ wpc = "bcWrite"
  /\ delivered' = delivered \cup {cur}
  /\ wpc' = "bcRange"
  /\ UNCHANGED <<regVars, cur, visited, passStart, attempts, failed, fileVars, watchVars, pc, err, apiVars, rd, fresh>>

\* c.WriteMessage returns an error without delay.
BcWriteErr ==
  /\ wpc = "bcWrite"
  /\ failed' = failed \cup {cur}
  /\ wpc' = "bcDelete"
  /\ UNCHANGED <<regVars, cur, visited, passStart, attempts, delivered, fileVars, watchVars, pc, err, apiVars, rd, fresh>>

\* c.WriteMessage does not return: the peer does not take the bytes and
\* the connection has no write deadline, so the call waits in the write.
BcWriteBlock ==
  /\ wpc = "bcWrite"
  /\ wpc' = "bcBlocked"
  /\ UNCHANGED <<regVars, passVars, fileVars, watchVars, pc, err, apiVars, rd, fresh>>

\* The peer takes the bytes after all: the waiting WriteMessage returns nil.
BcUnblockOk ==
  /\ wpc = "bcBlocked"
  /\ delivered' = delivered \cup {cur}
  /\ wpc' = "bcRange"
  /\ UNCHANGED <<regVars, cur, visited, passStart, attempts, failed, fileVars, watchVars, pc, err, apiVars, rd, fresh>>

\* The transport breaks: the waiting WriteMessage returns an error.
BcUnblockErr ==
  /\ wpc = "bcBlocked"
  /\ failed' = failed \cup {cur}
  /\ wpc' = "bcDelete"
  /\ UNCHANGED <<regVars, cur, visited, passStart, attempts, delivered, fileVars, watchVars, pc, err, apiVars, rd, fresh>>

\* An error branch that closes the connection but leaves it in the map.
BcDeleteSkipped ==
  /\ wpc = "bcDelete"
  /\ clients' = clients
  /\ wpc' = "bcClose"
  /\ UNCHANGED <<mu, closed, passVars, fileVars, watchVars, pc, err, apiVars, rd, fresh>>

\* delete(clients, c) in the error branch
BcDelete ==
  /\ wpc = "bcDelete"
  /\ clients' = MapDelete(clients, cur)
  /\ wpc' = "bcClose"
  /\ UNCHANGED <<mu, closed, passVars, fileVars, watchVars, pc, err, apiVars, rd, fresh>>

\* c.Close() in the error branch
BcClose ==
  /\ wpc = "bcClose"
  /\ closed' = [closed EXCEPT ![cur] = @ + 1]
  /\ wpc' = "bcRange"
  /\ UNCHANGED <<clients, mu, passVars, fileVars, watchVars, pc, err, apiVars, rd, fresh>>

\* The deferred clientsMu.Unlock(); broadcast returns into watchReport.
BcUnlock ==
  /\ wpc = "bcUnlock"
  /\ mu' = NoOwner
  /\ wpc' = "sleep"
  /\ cur' = 0
  /\ visited' = {}
  /\ passStart' = {}
  /\ attempts' = NoAttempts
  /\ delivered' = {}
  /\ failed' = {}
  /\ UNCHANGED <<clients, closed, fileVars, watchVars, pc, err, apiVars, rd, fresh>>

\* -------------------------------------------------- loadReport, /api/report
\* The error texts of os.ReadFile and json.Unmarshal.
ErrNotExist == "no such file or directory"
ErrRead == "input/output error"
ErrSyntax == "unexpected end of JSON input"
ErrType == "json: cannot unmarshal string into Go struct field"

\* os.ReadFile(path): the bytes of the file, or an error when there is no
\* file or (readOk = FALSE) the read fails.
ReadFile(readOk) ==
  IF ~fileExists THEN <<"err", ErrNotExist>>
  ELSE IF ~readOk THEN <<"err", ErrRead>>
  ELSE <<"ok", content>>

\* json.Unmarshal(b, &report): null leaves the Report at its zero value, a
\* file cut short is a syntax error, a wrong field type is a type error.
Unmarshal(b) ==
  CASE b = "report" -> <<"ok", "report">>
    [] b = "null" -> <<"ok", "zero">>
    [] b = "truncated" -> <<"err", ErrSyntax>>
    [] b = "badtype" -> <<"err", ErrType>>

\* loadReport(path)
LoadReport(readOk) ==
  LET b == ReadFile(readOk) IN
    IF b[1] = "err" THEN b ELSE Unmarshal(b[2])

\* json.NewEncoder(w).Encode(report)
Encode(report) == IF report = "report" THEN "{report}" ELSE "{zero}"

\* A handler that answers every failure with the same text.
ApiReportStepGeneric(readOk) ==
  /\ resp' = LET r == LoadReport(readOk) IN
               IF r[1] = "err" THEN <<500, "internal server error">> ELSE <<200, Encode(r[2])>>
  /\ UNCHANGED <<regVars, passVars, fileVars, watchVars, pc, wpc, err, content, rd, fresh>>

\* The /api/report handler: loadReport, then http.Error(w, err.Error(), 500)
\* or the encoded report.
ApiReportStep(readOk) ==
  /\ resp' = LET r == LoadReport(readOk) IN
               IF r[1] = "err" THEN <<500, r[2]>> ELSE <<200, Encode(r[2])>>
  /\ UNCHANGED <<regVars, passVars, fileVars, watchVars, pc, wpc, err, content, rd, fresh>>

ApiReport == \E readOk \in BOOLEAN : ApiReportStep(readOk)

\* ------------------------------------------------------------------ Next
\* The steps of the /ws handler h.
Handler(h) ==
  \/ UpgradeFail(h)
  \/ UpgradeOk(h)
  \/ AddLock(h)
  \/ AddPut(h)
  \/ ReadOk(h)
  \/ ReadErr(h)
  \/ RmLock(h)
  \/ RmDelete(h)
  \/ RmClose(h)

\* The steps of broadcast.
Broadcast ==
  \/ BcLock
  \/ BcRange
  \/ BcRangeEnd
  \/ BcWriteOk
  \/ BcWriteErr
  \/ BcWriteBlock
  \/ BcUnblockOk
  \/ BcUnblockErr
  \/ BcDelete
  \/ BcClose
  \/ BcUnlock

Next ==
  \/ \E h \in Conns : Handler(h)
  \/ Broadcast
  \/ Poll
  \/ Sleep
  \/ Publish
  \/ Regress

Spec == Init /\ [][Next]_vars

\* The same program with the history counters recorded.
NextCounted ==
  \/ \E h \in Conns : Handler(h)
  \/ Broadcast
  \/ PollCounted
  \/ Sleep
  \/ PublishCounted
  \/ Regress

CountSpec == Init /\ [][NextCounted]_vars

\* The HTTP side of the program: the /ws handlers and the /api/report
\* handler, with a report writer that can leave any content.
NextApi ==
  \/ \E h \in Conns : Handler(h)
  \/ ApiReport
  \/ PublishAny

ApiSpec == Init /\ [][NextApi]_vars

\* The steps of the /ws handler h with its reads recorded.
HandlerRecorded(h) ==
  \/ UpgradeFail(h)
  \/ UpgradeOk(h)
  \/ AddLock(h)
  \/ AddPut(h)
  \/ ReadOkRecorded(h)
  \/ ReadErr(h)
  \/ RmLock(h)
  \/ RmDelete(h)
  \/ RmClose(h)

\* The program with the reads of the /ws handlers recorded.
NextMsg ==
  \/ \E h \in Conns : HandlerRecorded(h)
  \/ Broadcast
  \/ Poll
  \/ Sleep
  \/ Publish
  \/ Regress

MsgSpec == Init /\ [][NextMsg]_vars

\* The program with the publishes marked until a stat has seen them.
NextFresh ==
  \/ \E h \in Conns : Handler(h)
  \/ Broadcast
  \/ Poll
  \/ Sleep
  \/ PublishMarked
  \/ Regress

FreshSpec == Init /\ [][NextFresh]_vars

\* Scheduling: a goroutine that can take a step takes it; a goroutine
\* waiting in Lock gets the mutex if it is unlocked again and again
\* (sync.Mutex hands the lock to a starving waiter).  What the peers, the
\* network and the report writer do is not scheduled by the program: no
\* fairness for the upgrade result, reads, a blocked write coming back,
\* publishes and clock skew.
Fairness ==
  /\ WF_vars(Poll)
  /\ WF_vars(Sleep)
  /\ SF_vars(BcLock)
  /\ WF_vars(BcRange \/ BcRangeEnd)
  /\ WF_vars(BcWriteOk \/ BcWriteErr \/ BcWriteBlock)
  /\ WF_vars(BcDelete \/ BcClose \/ BcUnlock)
  /\ \A h \in Conns :
       /\ SF_vars(AddLock(h) \/ RmLock(h))
       /\ WF_vars(AddPut(h) \/ RmDelete(h) \/ RmClose(h))

FairSpec == Spec /\ Fairness

\* The same program under the scheduling assumptions of FairSpec, with a
\* file whose stat succeeds again and again while it exists.
FreshFairSpec == FreshSpec /\ Fairness /\ SF_vars(PollStep(TRUE, FALSE))

\* ================================================================ claims
\* A step of watchReport that performs one poll.
IsPoll == wpc = "poll" /\ wpc' # "poll"

\* The poll of this step goes on to call broadcast("reload").
Signals == wpc' = "bcLock"

\* The watcher is inside a broadcast pass (between Lock and Unlock).
InPass == wpc \in {"bcRange", "bcWrite", "bcBlocked", "bcDelete", "bcClose", "bcUnlock"}

\* C1: a poll signals a change event exactly when its stat succeeds and the
\* observed modification time is strictly later than `last`; a poll that
\* observes an equal or earlier time, or whose stat fails, signals nothing;
\* a signalling poll signals once and records the observed time in `last`,
\* so the same advance is not signalled again.
C1_SignalIffStrictAdvance ==
  [][IsPoll =>
       /\ Signals <=> (~err' /\ fileExists /\ mtime > last)
       /\ Signals => last' = mtime
       /\ ~Signals => (last' = last /\ wpc' = "sleep")]_vars

\* C1 witness: a second strict advance has just been signalled (the pass of
\* the first one dropped a connection whose handler is still reading).
C1_Witness ==
  /\ wpc = "bcLock"
  /\ last = 2
  /\ mtime = 2
  /\ ~err
  /\ \E c \in Conns : pc[c] = "read" /\ closed[c] = 1

\* C2: when a pass over N registered clients ends with exactly one failed
\* send, the other N-1 clients got the token, the failing one is out of the
\* registry and closed, and the registry holds N-1 connections.
C2_BroadcastIsolation ==
  (wpc = "bcUnlock" /\ Cardinality(failed) = 1) =>
     /\ delivered = passStart \ failed
     /\ clients = passStart \ failed
     /\ \A c \in failed : closed[c] >= 1
     /\ Cardinality(clients) = Cardinality(passStart) - 1

\* C2 witness: three registered clients, one failed send, two left.
C2_Witness ==
  /\ wpc = "bcUnlock"
  /\ Cardinality(passStart) = 3
  /\ Cardinality(failed) = 1
  /\ Cardinality(clients) = 2
  /\ Cardinality(delivered) = 2

\* C3: in one pass no connection gets more than one send, what is sent is
\* the token `reload`, and when the pass ends every connection that was
\* registered at its start got exactly one send (delivered or failed) and
\* no other connection got any.
C3_OneSendPerClient ==
  /\ \A c \in Conns : attempts[c] <= 1
  /\ InPass => msg = ReloadToken
  /\ wpc = "bcUnlock" =>
       /\ \A c \in Conns : attempts[c] = IF c \in passStart THEN 1 ELSE 0
       /\ delivered \cup failed = passStart
       /\ delivered \cap failed = {}

\* C3 witness: a pass over all connections ends with a delivered and a
\* failed send.
C3_Witness ==
  /\ wpc = "bcUnlock"
  /\ passStart = Conns
  /\ failed # {}
  /\ delivered # {}

\* C4 as stated: right after every successful poll the number of events
\* signalled so far equals the number of publishes so far.
C4_EventsEqualPublishes ==
  [][(IsPoll /\ ~err') => events' = publishes']_vars

\* C4 amended: the number of events never exceeds the number of publishes
\* plus one (the one for a report file that existed before the first poll).
C4_EventsAtMostPublishes ==
  events <= publishes + 1

\* C4 witness: two publishes fell between two polls and the successful poll
\* that saw the latest one has signalled a single event for both.
C4_Witness ==
  /\ wpc = "bcLock"
  /\ ~err
  /\ last = mtime
  /\ events = 1
  /\ publishes = 2

\* C5 as stated: a send that does not complete promptly always ends in the
\* error branch (delete and Close), as a failed send does.
C5_SlowClientDropped ==
  [][(wpc = "bcBlocked" /\ wpc' # "bcBlocked") => wpc' = "bcDelete"]_vars

\* C6 as stated: every addClient, removeClient and broadcast that has been
\* called returns, and the watcher reaches its next poll again and again.
C6_NoOperationBlocks ==
  /\ \A h \in Conns : (pc[h] = "addLock") ~> (pc[h] = "read")
  /\ \A h \in Conns : (pc[h] = "rmLock") ~> (pc[h] = "done")
  /\ (wpc = "bcLock") ~> (wpc = "sleep")
  /\ []<>(wpc = "poll")

\* The handler h is inside the critical section of addClient or removeClient.
InCS(h) == pc[h] \in {"addPut", "rmDelete", "rmClose"}

\* At most one goroutine is inside a critical section, and it owns the mutex.
MutualExclusion ==
  /\ \A h1, h2 \in Conns : (InCS(h1) /\ InCS(h2)) => h1 = h2
  /\ \A h \in Conns : InCS(h) => (~InPass /\ mu = h)
  /\ InPass => mu = WatcherId

\* A step that changes the registry is taken by the owner of the mutex.
OwnerOnly ==
  clients' # clients =>
     /\ mu # NoOwner
     /\ IF mu = WatcherId
          THEN wpc' # wpc /\ pc' = pc
          ELSE pc'[mu] # pc[mu] /\ wpc' = wpc

\* Between Lock and Unlock an operation has the effect of its sequential
\* definition on the registry it found.
SequentialEffect ==
  /\ \A h \in Conns : (pc[h] = "addPut" /\ pc'[h] = "read") => clients' = clients \cup {h}
  /\ \A h \in Conns : (pc[h] = "rmDelete" /\ pc'[h] = "rmClose") => clients' = clients \ {h}
  /\ \A h \in Conns : (pc[h] = "rmClose" /\ pc'[h] = "done") => clients' = clients
  /\ (wpc = "bcUnlock" /\ wpc' = "sleep") => (clients' = clients /\ clients = passStart \ failed)

\* C7: the registry is read and changed only by the owner of clientsMu, no
\* two of addClient, removeClient and broadcast are inside the critical
\* section together, and each of them changes the registry it found at Lock
\* as its sequential definition says (so the registry is the result of the
\* operations in the order of their Lock).
C7_SingleCriticalSection ==
  /\ []MutualExclusion
  /\ [][OwnerOnly /\ SequentialEffect]_vars

\* C7 witness: a pass holds the mutex while one handler waits in addClient
\* and another waits in removeClient.
C7_Witness ==
  /\ wpc = "bcWrite"
  /\ \E h1, h2 \in Conns : pc[h1] = "addLock" /\ pc[h2] = "rmLock" /\ h2 \in clients

\* C8: while a pass runs the registry only loses the connections whose send
\* failed, the pass sends to connections of the registry it found at Lock
\* only and, when it ends, to all of them; a connection whose handler had not
\* finished addClient when the pass started gets no send in this pass.
C8_PassHoldsRegistry ==
  InPass =>
     /\ clients \subseteq passStart
     /\ (passStart \ clients) \subseteq failed
     /\ {c \in Conns : attempts[c] > 0} \subseteq passStart
     /\ delivered \subseteq passStart
     /\ \A h \in Conns : pc[h] \in {"start", "failed", "addLock", "addPut"} => attempts[h] = 0
     /\ wpc = "bcUnlock" => {c \in Conns : attempts[c] > 0} = passStart

\* C8 witness: a pass has sent to every connection it found while a handler
\* waited in addClient and another in removeClient.
C8_Witness ==
  /\ wpc = "bcUnlock"
  /\ \E h1, h2 \in Conns : pc[h1] = "addLock" /\ pc[h2] = "rmLock" /\ h2 \in delivered

C10_AddUnconditional ==
  [][\A h \in Conns : (pc[h] = "addPut" /\ pc'[h] = "read") =>
       /\ h \in clients'
       /\ \A d \in Conns \ {h} : (d \in clients') <=> (d \in clients)
       /\ Cardinality(clients') <= Cardinality(clients) + 1
       /\ MapPut(clients', h) = clients'
       /\ Cardinality(MapPut(clients', h)) = Cardinality(clients')]_vars

\* C10 witness: a handler has returned from addClient and all connections
\* are registered.
C10_Witness ==
  /\ clients = Conns
  /\ mu = NoOwner
  /\ \A h \in Conns : pc[h] = "read"

\* The lifecycle state of the connection of handler h.
Life(h) ==
  IF pc[h] = "failed" THEN "NoConnection"
  ELSE IF pc[h] \in {"start", "addLock", "addPut"} THEN "Connecting"
  ELSE IF h \in clients THEN "Registered"
  ELSE "Closed"

\* The moves of a connection's lifecycle.
LifeMoves ==
  {<<"Connecting", "Registered">>, <<"Registered", "Closed">>, <<"Connecting", "NoConnection">>}

\* C11: a connection moves only Connecting -> Registered -> Closed (or is
\* never made when the handshake fails); Closed is terminal: it is never in
\* the registry again; a read failure leads the handler into removeClient
\* and nowhere else, and a handler that has returned has its connection out
\* of the registry and closed.
C11_Lifecycle ==
  /\ [][\A h \in Conns :
          /\ Life(h)' # Life(h) => <<Life(h), Life(h)'>> \in LifeMoves
          /\ (pc[h] = "read" /\ pc'[h] # "read") => pc'[h] = "rmLock"
          /\ (pc[h] = "rmLock" /\ pc'[h] # "rmLock") => pc'[h] = "rmDelete"
          /\ pc[h] = "done" => pc'[h] = "done"]_vars
  /\ [](\A h \in Conns : pc[h] = "done" => (h \notin clients /\ closed[h] >= 1))

\* C11 witness: one connection was closed by its handler after a read
\* failure, another is registered, a third is still connecting.
C11_Witness ==
  \E h1, h2, h3 \in Conns :
     /\ pc[h1] = "done" /\ closed[h1] = 1
     /\ Life(h2) = "Registered"
     /\ pc[h3] = "addLock"

\* C15: a poll whose stat fails signals nothing, leaves `last` as it is and
\* goes to sleep; the poll that follows a failed one and finds a
\* modification time not later than `last` signals nothing either; after
\* the sleep the watcher polls again.
C15_UnavailableStoreIsSilent ==
  [][/\ (IsPoll /\ err') => (~Signals /\ last' = last /\ wpc' = "sleep")
     /\ (IsPoll /\ err /\ ~err' /\ mtime <= last) => (~Signals /\ last' = last /\ wpc' = "sleep")
     /\ (wpc = "sleep" /\ wpc' # "sleep") => wpc' = "poll"]_vars

\* C15 witness: a poll has failed on an existing file whose modification
\* time is earlier than `last`; the watcher sleeps with `last` kept.
C15_Witness ==
  /\ wpc = "sleep"
  /\ err
  /\ fileExists
  /\ last = 2
  /\ mtime = 1

\* C16: a handler whose upgrade has not succeeded has no connection in the
\* registry; a failed upgrade leaves the registry as it is and the handler
\* takes no further step; a handler enters its read loop only from
\* addClient, with its connection registered.
C16_RegisterAfterHandshake ==
  /\ [](\A h \in Conns : pc[h] \in {"start", "failed"} => (h \notin clients /\ closed[h] = 0))
  /\ [][\A h \in Conns :
          /\ pc[h] = "failed" => pc'[h] = "failed"
          /\ (pc[h] = "start" /\ pc'[h] = "failed") => UNCHANGED <<clients, mu, closed>>
          /\ (pc[h] # "read" /\ pc'[h] = "read") => (pc[h] = "addPut" /\ h \in clients')
          /\ (pc[h] = "start" /\ pc'[h] # "start") => pc'[h] \in {"failed", "addLock"}]_vars

\* C16 witness: one upgrade failed, another succeeded and its connection is
\* registered.
C16_Witness ==
  \E h1, h2 \in Conns :
     /\ pc[h1] = "failed"
     /\ pc[h2] = "read" /\ h2 \in clients
     /\ mu = NoOwner

\* The server has taken c out of the registry (it was registered before).
Removed(c) == pc[c] \in {"read", "rmLock", "rmDelete", "rmClose", "done"} /\ c \notin clients

\* C17: when the mutex is unlocked no closed connection is in the registry
\* and every connection taken out of the registry is closed: the delete and
\* the Close are in one critical section.
C17_ClosedNotRegistered ==
  mu = NoOwner =>
     \A c \in Conns :
        /\ closed[c] > 0 => c \notin clients
        /\ Removed(c) => closed[c] > 0

\* C17 witness: the mutex is unlocked, one connection was dropped by a pass
\* and another was closed by removeClient.
C17_Witness ==
  /\ mu = NoOwner
  /\ \E c1, c2 \in Conns :
       /\ pc[c1] = "read" /\ closed[c1] = 1
       /\ pc[c2] = "done" /\ closed[c2] = 1

\* C18: the removeClient of a connection that a pass has dropped leaves
\* the registry as it is and closes the connection a second time.
C18_RemoveAfterDrop ==
  [][\A h \in Conns :
       /\ (pc[h] = "rmDelete" /\ pc'[h] = "rmClose" /\ closed[h] = 1) =>
             (h \notin clients /\ clients' = clients)
       /\ (pc[h] = "rmClose" /\ pc'[h] = "done" /\ closed[h] = 1) =>
             (clients' = clients /\ closed'[h] = 2)]_vars

\* C18 witness: a handler has returned from removeClient for a connection
\* dropped by a pass (closed twice) and another connection is registered.
C18_Witness ==
  \E h1, h2 \in Conns :
     /\ pc[h1] = "done" /\ closed[h1] = 2
     /\ pc[h2] = "read" /\ h2 \in clients

\* C19: `last` never decreases, it changes only on a poll that signals, to
\* the modification time that poll's stat returned, and it is the zero time
\* or a modification time.
C19_LastMonotone ==
  /\ [][/\ last' >= last
        /\ last' # last => (IsPoll /\ Signals /\ ~err' /\ last' = mtime)]_vars
  /\ [](last = ZeroTime \/ last \in Times)

\* C19 witness: a successful poll has seen a modification time earlier
\* than `last` and has left `last` as it was.
C19_Witness ==
  /\ wpc = "sleep"
  /\ ~err
  /\ last = 2
  /\ mtime = 1

\* What the caller of /api/report makes of a response.
Outcome(r) ==
  IF r[1] = 200 THEN "Report"
  ELSE IF r[2] = ErrNotExist THEN "NotFound"
  ELSE IF r[2] \in {ErrSyntax, ErrType} THEN "Corrupt"
  ELSE "Unreadable"

\* C12: a request to /api/report changes nothing but the response; with no
\* file the caller sees NotFound, with content that does not parse it sees
\* Corrupt, with content that parses it sees the encoded report (a read that
\* fails on an existing file is a fourth outcome, Unreadable).
C12_ReadOutcomes ==
  [][resp' # resp =>
       /\ UNCHANGED <<clients, mu, closed, pc, fileExists, mtime, content>>
       /\ ~fileExists => Outcome(resp') = "NotFound"
       /\ (fileExists /\ content \in {"truncated", "badtype"}) =>
             Outcome(resp') \in {"Corrupt", "Unreadable"}
       /\ (fileExists /\ content \in {"report", "null"}) =>
             Outcome(resp') \in {"Report", "Unreadable"}
       /\ Outcome(resp') = "Report" =>
             resp'[2] = (IF content = "report" THEN "{report}" ELSE "{zero}")]_vars

\* C12 witness: a request has been answered Corrupt while a connection is
\* registered and the file is still the one that does not parse.
C12_Witness ==
  /\ Outcome(resp) = "Corrupt"
  /\ content = "truncated"
  /\ clients # {}

\* C13: the server writes to a connection only inside a pass and what it
\* writes is the token `reload`; a step on which ReadMessage returns a
\* message changes neither the registry, nor the watcher, nor the file, and
\* writes nothing to any connection.
C13_ReloadOnly ==
  /\ [][(\E c \in Conns : attempts'[c] > attempts[c]) =>
          (wpc = "bcRange" /\ msg = ReloadToken /\ msg' = ReloadToken)]_vars
  /\ [][rd' # rd =>
          UNCHANGED <<clients, mu, closed, pc, wpc, last, msg, err, cur, visited,
                      attempts, delivered, failed, fileExists, mtime, content, resp>>]_vars
  /\ [](msg \in {"", ReloadToken})

\* C13 witness: a handler has read a message from its peer and a pass has
\* delivered the token to a connection.
C13_Witness ==
  /\ rd
  /\ InPass
  /\ delivered # {}
  /\ msg = ReloadToken

\* C14 as stated: a publish whose modification time is later than `last`
\* is seen by a stat of the watcher (which then signals it, C1), whenever
\* the file can be read again and again.
C14_PublishDetected ==
  (fresh /\ mtime > last) ~> (~fresh \/ mtime <= last)

\* C20: no event is signalled while `last` is the zero time and `last`
\* leaves the zero time with the first event; once a poll's stat has
\* succeeded an event has been signalled (the first successful poll is
\* never silent), and it is the only one as long as nothing is published.
C20_FirstPollSignals ==
  /\ (events = 0) <=> (last = ZeroTime)
  /\ (wpc # "poll" /\ ~err) => events >= 1
  /\ (wpc # "poll" /\ ~err /\ publishes = 0) => (events = 1 /\ last = 1)

\* C20 witness: the first successful poll has signalled an event for a file
\* that was there at the start and has not been published since.
C20_Witness ==
  /\ wpc = "bcLock"
  /\ ~err
  /\ events = 1
  /\ publishes = 0
  /\ last = 1

TypeOK ==
  /\ clients \subseteq Conns
  /\ mu \in 0..WatcherId
  /\ closed \in [Conns -> 0..2]
  /\ last \in 0..MaxTime
  /\ cur \in 0..NumConns
  /\ msg \in {"", ReloadToken}
====
